---------------------------- MODULE Spec2Model ----------------------------
(***************************************************************************)
(* Diosix Manifest File System (dmfs): the image encoder Manifest::to_image *)
(* and the image decoder ManifestImageIter (from_slice, next) of           *)
(* src/src/lib.rs.                                                         *)
(*                                                                         *)
(* A byte is an integer 0..255 and a buffer is a sequence of bytes.  A     *)
(* u32 is the tuple of its 4 bytes and a u64 or usize the tuple of its 8   *)
(* bytes, least significant byte first, so that 32 and 64 bit values keep  *)
(* their width: 0xD105C001 is <<1, 192, 5, 209>>.  Offsets that index the  *)
(* buffer are kept as naturals while they are known to lie inside it.      *)
(* Buffer indices are 0-based in the code and 1-based in sequences.        *)
(***************************************************************************)
EXTENDS Integers, Sequences, FiniteSets, TLC

(* ------------------------------ bounds -------------------------------- *)

\* most objects a Manifest is given by add()
MaxObjects == 2

\* most calls of next() made on one iterator
MaxCalls == 3

(* ----------------------------- Option --------------------------------- *)

None == <<>>

Some(x) == <<x>>

IsSome(o) == o # <<>>

Unwrap(o) == o[1]

(* ------------------- fixed width integers as bytes -------------------- *)

\* n < 2^24 as the bytes of a w-byte little-endian word
Word(n, w) == [i \in 1..w |-> IF i = 1 THEN n % 256
                              ELSE IF i = 2 THEN (n \div 256) % 256
                              ELSE IF i = 3 THEN (n \div 65536) % 256
                              ELSE 0]

\* the value of a little-endian word, or cap + 1 when it exceeds cap (cap < 2^16)
Clamp(t, cap) ==
    IF \E i \in 3..Len(t) : t[i] # 0 THEN cap + 1
    ELSE IF t[1] + 256 * t[2] > cap THEN cap + 1
    ELSE t[1] + 256 * t[2]

\* whether the word is a value below 2^16, which every offset into a buffer is
IsSmall(t) == \A i \in 3..Len(t) : t[i] = 0

SmallVal(t) == t[1] + 256 * t[2]

\* a < b for two words of the same width
WordLt(a, b) ==
    \E i \in 1..Len(a) : a[i] < b[i] /\ \A j \in (i + 1)..Len(a) : a[j] = b[j]

WordLe(a, b) == a = b \/ WordLt(a, b)

\* the carry out of byte i of a + b
RECURSIVE Carry(_, _, _)
Carry(a, b, i) ==
    IF i = 0 THEN 0 ELSE (a[i] + b[i] + Carry(a, b, i - 1)) \div 256

\* a + b modulo 2^(8 * width), and whether the true sum overflows the width
WordAdd(a, b) ==
    [sum      |-> [i \in 1..Len(a) |-> (a[i] + b[i] + Carry(a, b, i - 1)) % 256],
     overflow |-> Carry(a, b, Len(a)) = 1]

(* --------------- byterider::Bytes, the byte buffer -------------------- *)

Zeros(n) == [i \in 1..n |-> 0]

\* the bytes missing from n up to the next multiple of k
PadLen(n, k) == (k - (n % k)) % k

add_u8(b, byte) == Append(b, byte)

add_u32(b, word) == b \o word

add_u64(b, word) == b \o word

add_null_term_string(b, s) == b \o s \o <<0>>

pad_to_u32(b) == b \o Zeros(PadLen(Len(b), 4))

pad_to_u64(b) == b \o Zeros(PadLen(Len(b), 8))

read_u32(data, offset) ==
    IF offset + 4 <= Len(data) THEN Some(SubSeq(data, offset + 1, offset + 4))
    ELSE None

read_u64(data, offset) ==
    IF offset + 8 <= Len(data) THEN Some(SubSeq(data, offset + 1, offset + 8))
    ELSE None

\* the bytes from offset up to the first zero byte, if there is one
read_null_term_string(data, offset) ==
    LET nuls == {i \in (offset + 1)..Len(data) : data[i] = 0}
    IN  IF nuls = {} THEN None
        ELSE LET first == CHOOSE i \in nuls : \A j \in nuls : i <= j
             IN  Some(SubSeq(data, offset + 1, first - 1))

align_to_next_u32(offset) == offset + PadLen(offset, 4)

align_to_next_u64(offset) == offset + PadLen(offset, 8)

\* align_to_next_u64 of a usize that may lie anywhere in the 64 bit range
align_to_next_u64_wide(t) == WordAdd(t, Word(PadLen(t[1], 8), 8))

(* ----------------------------- constants ------------------------------ *)

\* 0xD105C001
MANIFEST_MAGIC == <<1, 192, 5, 209>>

\* 0xD1015D4D
MANIFEST_OBJECT_MAGIC == <<77, 93, 1, 209>>

MANIFEST_VERSION == 2

ManifestObjectType == {"BootMsg", "SystemService", "GuestOS", "Unknown", "EndOfList"}

ManifestError == {"MalformedHeader", "BadMagic", "VersionMismatch", "CantUseRegionHere"}

to_integer(t) ==
    CASE t = "EndOfList"     -> 0
      [] t = "BootMsg"       -> 1
      [] t = "SystemService" -> 2
      [] t = "GuestOS"       -> 3
      [] t = "Unknown"       -> 4

\* from_integer by the order of the variants in the enum's declaration
from_integer_declared(nr) ==
    CASE nr = Word(0, 4) -> "BootMsg"
      [] nr = Word(1, 4) -> "SystemService"
      [] nr = Word(2, 4) -> "GuestOS"
      [] nr = Word(4, 4) -> "EndOfList"
      [] OTHER           -> "Unknown"

\* nr is the u32 read from the image
from_integer(nr) ==
    CASE nr = Word(0, 4) -> "EndOfList"
      [] nr = Word(1, 4) -> "BootMsg"
      [] nr = Word(2, 4) -> "SystemService"
      [] nr = Word(3, 4) -> "GuestOS"
      [] OTHER           -> "Unknown"

(* -------------------------- object contents --------------------------- *)

\* ManifestObjectData::Bytes(v)
DataBytes(v) == [kind |-> "Bytes", bytes |-> v, start |-> Word(0, 8), end |-> Word(0, 8)]

\* ManifestObjectData::Region(start..end), start and end being usize words
DataRegion(s, e) == [kind |-> "Region", bytes |-> <<>>, start |-> s, end |-> e]

\* two's complement of a 64 bit word
Negate(t) == WordAdd([i \in 1..8 |-> 255 - t[i]], Word(1, 8)).sum

\* ManifestObjectData::len. With overflow checks compiled in (checks), r.end - r.start
\* panics when end < start; without them it wraps.
len(d, checks) ==
    IF d.kind = "Bytes" THEN [panic |-> FALSE, val |-> Word(Len(d.bytes), 8)]
    ELSE IF checks /\ WordLt(d.end, d.start) THEN [panic |-> TRUE, val |-> Word(0, 8)]
    ELSE [panic |-> FALSE, val |-> WordAdd(d.end, Negate(d.start)).sum]

\* ManifestObject::new
ManifestObject(objtype, name, descr, data, properties) ==
    [objtype |-> objtype, name |-> name, descr |-> descr,
     properties |-> properties, data |-> data]

(* ------------------------- Manifest::to_image ------------------------- *)

\* every byte of v appended with add_u8, in order
RECURSIVE add_bytes(_, _, _)
add_bytes(b, v, i) ==
    IF i > Len(v) THEN b ELSE add_bytes(add_u8(b, v[i]), v, i + 1)

\* every property appended as a null-terminated string, in order
RECURSIVE add_properties(_, _, _)
add_properties(b, properties, i) ==
    IF i > Len(properties) THEN b
    ELSE add_properties(add_null_term_string(b, properties[i]), properties, i + 1)

\* encode_meta_raw without the padding to the next 32 bit word
encode_meta_raw_nopad(b, object, size) ==
    LET b1 == add_u32(b, MANIFEST_OBJECT_MAGIC)
        b2 == add_u32(b1, Word(to_integer(object.objtype), 4))
        b3 == add_u64(b2, size)
        b4 == add_null_term_string(b3, object.name)
        b5 == add_null_term_string(b4, object.descr)
        b7 == add_u32(b5, Word(Len(object.properties), 4))
    IN  add_properties(b7, object.properties, 1)

\* one turn of the loop over the objects, up to the padding that follows the
\* properties: the object's record without its contents, appended to b (size is
\* the u64 written)
encode_meta_raw(b, object, size) ==
    LET b1 == add_u32(b, MANIFEST_OBJECT_MAGIC)
        b2 == add_u32(b1, Word(to_integer(object.objtype), 4))
        b3 == add_u64(b2, size)
        b4 == add_null_term_string(b3, object.name)
        b5 == add_null_term_string(b4, object.descr)
        b6 == pad_to_u32(b5)
        b7 == add_u32(b6, Word(Len(object.properties), 4))
    IN  add_properties(b7, object.properties, 1)

encode_meta(b, object, size) == pad_to_u64(encode_meta_raw(b, object, size))

\* the copy of the contents into the image
encode_contents(b, data) == pad_to_u64(add_bytes(b, data.bytes, 1))

ImageOk(b) == [status |-> "ok", bytes |-> b, err |-> ""]

ImageErr(e) == [status |-> "err", bytes |-> <<>>, err |-> e]

ImagePanic == [status |-> "panic", bytes |-> <<>>, err |-> ""]

NoImage == [status |-> "unset", bytes |-> <<>>, err |-> ""]

\* the loop over self.objects from object i on, and the bookend
RECURSIVE to_image_from(_, _, _, _)
to_image_from(b, objects, i, checks) ==
    IF i > Len(objects) THEN ImageOk(add_u32(b, Word(to_integer("EndOfList"), 4)))
    ELSE LET object == objects[i]
             size   == len(object.data, checks)
         IN  IF size.panic THEN ImagePanic
             ELSE IF object.data.kind # "Bytes" THEN ImageErr("CantUseRegionHere")
             ELSE to_image_from(encode_contents(encode_meta(b, object, size.val), object.data),
                                objects, i + 1, checks)

to_image(objects, checks) ==
    to_image_from(add_u32(add_u32(<<>>, MANIFEST_MAGIC), Word(MANIFEST_VERSION, 4)),
                  objects, 1, checks)

(* -------------------- ManifestImageIter::from_slice ------------------- *)

HeaderOk(offset) == [ok |-> TRUE, err |-> "", offset |-> offset]

HeaderErr(e) == [ok |-> FALSE, err |-> e, offset |-> 0]

\* from_slice with the length of the header checked before the magic is read
from_slice_length_first(blob) ==
    IF Len(blob) < 8 THEN HeaderErr("MalformedHeader")
    ELSE IF SubSeq(blob, 1, 4) # MANIFEST_MAGIC THEN HeaderErr("BadMagic")
    ELSE IF Clamp(SubSeq(blob, 5, 8), MANIFEST_VERSION) > MANIFEST_VERSION
         THEN HeaderErr("VersionMismatch")
    ELSE HeaderOk(4 + 4)

\* from_slice with version >= MANIFEST_VERSION refused
from_slice_ge(blob) ==
    LET magic == read_u32(blob, 0)
    IN  IF ~IsSome(magic) THEN HeaderErr("MalformedHeader")
        ELSE IF Unwrap(magic) # MANIFEST_MAGIC THEN HeaderErr("BadMagic")
        ELSE LET version == read_u32(blob, 4)
             IN  IF ~IsSome(version) THEN HeaderErr("MalformedHeader")
                 ELSE IF Clamp(Unwrap(version), MANIFEST_VERSION) >= MANIFEST_VERSION
                      THEN HeaderErr("VersionMismatch")
                 ELSE HeaderOk(4 + 4)

from_slice(blob) ==
    LET magic == read_u32(blob, 0)
    IN  IF ~IsSome(magic) THEN HeaderErr("MalformedHeader")
        ELSE IF Unwrap(magic) # MANIFEST_MAGIC THEN HeaderErr("BadMagic")
        ELSE LET version == read_u32(blob, 4)
             IN  IF ~IsSome(version) THEN HeaderErr("MalformedHeader")
                 ELSE IF Clamp(Unwrap(version), MANIFEST_VERSION) > MANIFEST_VERSION
                      THEN HeaderErr("VersionMismatch")
                 ELSE HeaderOk(4 + 4)

(* ----------------------- ManifestImageIter::next ---------------------- *)

NoObject == ManifestObject("Unknown", <<>>, <<>>, DataBytes(<<>>), <<>>)

\* the outcome of the reads of one record: stop is "" when every read went through,
\* else the read that returned early; offset is the local offset reached
Meta(stop, offset, objtype, size, name, descr, props) ==
    [stop |-> stop, offset |-> offset, objtype |-> objtype, size |-> size,
     name |-> name, descr |-> descr, props |-> props]

Stop(why, offset) == Meta(why, offset, "Unknown", Word(0, 8), <<>>, <<>>, <<>>)

\* the loop over 0..obj_property_count: count strings read from offset on
RECURSIVE read_props(_, _, _, _)
read_props(data, offset, count, props) ==
    IF count = 0 THEN [ok |-> TRUE, offset |-> offset, props |-> props]
    ELSE LET prop_string == read_null_term_string(data, offset)
         IN  IF ~IsSome(prop_string) THEN [ok |-> FALSE, offset |-> offset, props |-> props]
             ELSE read_props(data, offset + Len(Unwrap(prop_string)) + 1, count - 1,
                             Append(props, Unwrap(prop_string)))

\* the property count and the properties, read once name and description are.
\* A count above the buffer's length cannot be read in full (every string takes a
\* byte at least), so it is clamped to one more than that length.
read_meta_props(data, offset0, objtype, size, name, descr) ==
    LET offset == align_to_next_u32(offset0)
        count  == read_u32(data, offset)
    IN  IF ~IsSome(count) THEN Stop("count", offset)
        ELSE LET r == read_props(data, offset + 4, Clamp(Unwrap(count), Len(data)), <<>>)
             IN  IF ~r.ok THEN Stop("prop", r.offset)
                 ELSE Meta("", align_to_next_u64(r.offset), objtype, size, name, descr, r.props)

\* the size, the name and the description, read once the type is
read_meta_strings(data, offset, objtype) ==
    LET obj_size == read_u64(data, offset)
    IN  IF ~IsSome(obj_size) THEN Stop("size", offset)
        ELSE LET obj_name == read_null_term_string(data, offset + 8)
             IN  IF ~IsSome(obj_name) THEN Stop("name", offset + 8)
                 ELSE LET o2 == offset + 8 + Len(Unwrap(obj_name)) + 1
                          obj_desc == read_null_term_string(data, o2)
                      IN  IF ~IsSome(obj_desc) THEN Stop("descr", o2)
                          ELSE read_meta_props(data, o2 + Len(Unwrap(obj_desc)) + 1, objtype,
                                               Unwrap(obj_size), Unwrap(obj_name),
                                               Unwrap(obj_desc))

\* the reads of next() from self.offset up to the start of the contents
read_meta(data, offset) ==
    LET magic == read_u32(data, offset)
    IN  IF ~IsSome(magic) THEN Stop("magic", offset)
        ELSE IF Unwrap(magic) # MANIFEST_OBJECT_MAGIC THEN Stop("badmagic", offset)
        ELSE LET nr == read_u32(data, offset + 4)
             IN  IF ~IsSome(nr) THEN Stop("type", offset + 4)
                 ELSE IF from_integer(Unwrap(nr)) = "EndOfList" THEN Stop("endoflist", offset + 4)
                 ELSE read_meta_strings(data, offset + 4 + 4, from_integer(Unwrap(nr)))

\* Range { start: offset, end: offset + obj_size as usize }
content_region(offset, obj_size) ==
    LET e == WordAdd(Word(offset, 8), obj_size)
    IN  [start |-> Word(offset, 8), end |-> e.sum, overflow |-> e.overflow]

\* next_offset without the alignment
next_offset_unaligned(offset, obj_size) ==
    LET e == WordAdd(Word(offset, 8), obj_size)
    IN  [val |-> e.sum, overflow |-> e.overflow]

\* Bytes::align_to_next_u64(offset + obj_size as usize)
next_offset(offset, obj_size) ==
    LET e == WordAdd(Word(offset, 8), obj_size)
        a == align_to_next_u64_wide(e.sum)
    IN  [val |-> a.sum, overflow |-> e.overflow \/ a.overflow]

NextNone(why, cursor) == [ret |-> "none", why |-> why, obj |-> NoObject, offset |-> cursor]

NextPanic(cursor) == [ret |-> "panic", why |-> "", obj |-> NoObject, offset |-> cursor]

\* offset_on_none with the iterator rewound to the first record
offset_on_none_rewind(cursor, m) == Word(4 + 4, 8)

\* offset_on_none with the local offset saved
offset_on_none_local(cursor, m) == Word(m.offset, 8)

\* the cursor left behind by a call that returns None after the reads m: every
\* early return comes before the one assignment to self.offset
offset_on_none(cursor, m) == cursor

\* next() on the buffer data with self.offset = cursor, a usize. With overflow
\* checks compiled in (checks) an overflowing addition panics, else it wraps.
next(data, cursor, checks) ==
    IF ~IsSmall(cursor) THEN NextNone("magic", cursor)
    ELSE LET m == read_meta(data, SmallVal(cursor))
         IN  IF m.stop # "" THEN NextNone(m.stop, offset_on_none(cursor, m))
             ELSE LET region == content_region(m.offset, m.size)
                      saved  == next_offset(m.offset, m.size)
                  IN  IF checks /\ (region.overflow \/ saved.overflow) THEN NextPanic(cursor)
                      ELSE [ret |-> "some", why |-> "",
                            obj |-> ManifestObject(m.objtype, m.name, m.descr,
                                                   DataRegion(region.start, region.end),
                                                   m.props),
                            offset |-> saved.val]

(* ------------------------------ inputs -------------------------------- *)

\* the objects add() is given: every type, names and descriptions of several
\* lengths (one holding a zero byte), none to two properties, contents shorter
\* than, equal to and longer than a 64 bit word, and Region contents, one of
\* them with its end before its start
ObjectSet ==
    { ManifestObject("BootMsg", <<97>>, <<>>, DataBytes(<<72, 105, 33>>), <<>>),
      ManifestObject("SystemService", <<105, 110>>, <<100>>, DataBytes(<<>>), << <<120>> >>),
      ManifestObject("Unknown", <<>>, <<>>, DataBytes(<<9, 8, 7, 6, 5, 4, 3, 2, 1>>),
                     << <<>>, <<112, 113>> >>),
      ManifestObject("GuestOS", <<98, 111, 111, 116>>, <<109, 115, 103>>,
                     DataBytes(<<1, 2, 3, 4, 5, 6, 7, 8>>), << <<97, 98>>, <<99>> >>),
      ManifestObject("EndOfList", <<101>>, <<>>, DataBytes(<<1>>), <<>>),
      ManifestObject("GuestOS", <<103, 0, 104>>, <<>>, DataBytes(<<0, 7>>), <<>>),
      ManifestObject("BootMsg", <<114>>, <<>>, DataRegion(Word(2, 8), Word(5, 8)), <<>>),
      ManifestObject("BootMsg", <<105>>, <<>>, DataRegion(Word(5, 8), Word(3, 8)), <<>>) }

\* the header magics a buffer is given: the right one, the per-object magic, and
\* the right one with its top byte changed
Magics == { MANIFEST_MAGIC, MANIFEST_OBJECT_MAGIC, <<1, 192, 5, 208>> }

\* the header versions a buffer is given: 0, 1, 2, 3 and 2 + 2^24
Versions == { Word(0, 4), Word(1, 4), Word(2, 4), Word(3, 4), <<2, 0, 0, 1>> }

\* the values a byte of the buffer is overwritten with
PokeBytes == { 0, 255 }

\* 2^64 - n, for 0 < n < 2^16
Minus(n) == Negate(Word(n, 8))

\* the values a 64 bit word of the buffer is overwritten with: 2^64 - 1,
\* 2^64 - 24, 2^64 - 32, 2^64 - 35 and 2^63
PokeWords == { Minus(1), Minus(24), Minus(32), Minus(35), <<0, 0, 0, 0, 0, 0, 0, 128>> }

(* ------------------------------- state -------------------------------- *)

VARIABLES
    phase,     \* "build", "encoded", "blob", "iter"
    objects,   \* Manifest.objects
    image,     \* what to_image returned
    blob,      \* the byte slice given to from_slice, held by the iterator
    edited,    \* whether the slice was truncated or overwritten
    iter,      \* the ManifestImageIter: its state, the error of from_slice, self.offset
    yielded,   \* the objects next() has returned, in order
    ret,       \* what the last call of next() returned: "some", "none", or "-" before it
    why,       \* the read at which the last call of next() returned None
    calls      \* the calls of next() made

vars == <<phase, objects, image, blob, edited, iter, yielded, ret, why, calls>>

Iter(state, err, offset) == [state |-> state, err |-> err, offset |-> offset]

Init ==
    /\ phase = "build"
    /\ objects = <<>>
    /\ image = NoImage
    /\ blob = <<>>
    /\ edited = FALSE
    /\ iter = Iter("Unvalidated", "", Word(0, 8))
    /\ yielded = <<>>
    /\ ret = "-"
    /\ why = ""
    /\ calls = 0

\* Manifest::add
Add ==
    /\ phase = "build"
    /\ Len(objects) < MaxObjects
    /\ \E to_add \in ObjectSet : objects' = Append(objects, to_add)
    /\ UNCHANGED <<phase, image, blob, edited, iter, yielded, ret, why, calls>>

\* Manifest::to_image, in a build that panics on integer overflow (checks) or in
\* one where it wraps
ToImage ==
    /\ phase = "build"
    /\ \E checks \in BOOLEAN : image' = to_image(objects, checks)
    /\ phase' = "encoded"
    /\ UNCHANGED <<objects, blob, edited, iter, yielded, ret, why, calls>>

\* the image becomes the byte slice to read
LoadImage ==
    /\ phase = "encoded"
    /\ image.status = "ok"
    /\ blob' = image.bytes
    /\ phase' = "blob"
    /\ UNCHANGED <<objects, image, edited, iter, yielded, ret, why, calls>>

\* the slice is given another header magic and version, and is cut to its first n
\* bytes, n being at most the header's length or the length of the slice
SetHeader ==
    /\ phase = "blob"
    /\ ~edited
    /\ \E magic \in Magics, version \in Versions, n \in (0..8) \cup {Len(blob)} :
          /\ n <= Len(blob)
          /\ blob' = SubSeq(magic \o version \o SubSeq(blob, 9, Len(blob)), 1, n)
    /\ blob' # blob
    /\ edited' = TRUE
    /\ UNCHANGED <<phase, objects, image, iter, yielded, ret, why, calls>>

\* the slice is cut to its first n bytes
Truncate ==
    /\ phase = "blob"
    /\ ~edited
    /\ \E n \in 0..(Len(blob) - 1) : blob' = SubSeq(blob, 1, n)
    /\ edited' = TRUE
    /\ UNCHANGED <<phase, objects, image, iter, yielded, ret, why, calls>>

\* a byte after the header is overwritten
PokeByte ==
    /\ phase = "blob"
    /\ ~edited
    /\ \E offset \in 8..(Len(blob) - 1), byte \in PokeBytes :
          /\ blob[offset + 1] # byte
          /\ blob' = [blob EXCEPT ![offset + 1] = byte]
    /\ edited' = TRUE
    /\ UNCHANGED <<phase, objects, image, iter, yielded, ret, why, calls>>

\* a 64 bit word after the header, at a multiple of 8, is overwritten
PokeWord ==
    /\ phase = "blob"
    /\ ~edited
    /\ \E k \in 1..(Len(blob) \div 8), word \in PokeWords :
          /\ 8 * k + 8 <= Len(blob)
          /\ blob' = SubSeq(blob, 1, 8 * k) \o word \o SubSeq(blob, 8 * k + 9, Len(blob))
    /\ edited' = TRUE
    /\ UNCHANGED <<phase, objects, image, iter, yielded, ret, why, calls>>

\* ManifestImageIter::from_slice
FromSlice ==
    /\ phase = "blob"
    /\ \E r \in {from_slice(blob)} :
          iter' = IF r.ok THEN Iter("Active", "", Word(r.offset, 8))
                  ELSE Iter("Failed", r.err, Word(0, 8))
    /\ phase' = "iter"
    /\ UNCHANGED <<objects, image, blob, edited, yielded, ret, why, calls>>

\* ManifestImageIter::next, in a build that panics on integer overflow (checks) or
\* in one where it wraps
IterNext ==
    /\ phase = "iter"
    /\ iter.state = "Active"
    /\ calls < MaxCalls
    /\ \E checks \in BOOLEAN : \E r \in {next(blob, iter.offset, checks)} :
          /\ iter' = IF r.ret = "panic" THEN Iter("Panicked", "", iter.offset)
                     ELSE Iter("Active", "", r.offset)
          /\ yielded' = IF r.ret = "some" THEN Append(yielded, r.obj) ELSE yielded
          /\ ret' = r.ret
          /\ why' = r.why
    /\ calls' = calls + 1
    /\ UNCHANGED <<phase, objects, image, blob, edited>>

Next ==
    \/ Add
    \/ ToImage
    \/ LoadImage
    \/ SetHeader
    \/ Truncate
    \/ PokeByte
    \/ PokeWord
    \/ FromSlice
    \/ IterNext

Spec == Init /\ [][Next]_vars

(* ----------------------------- properties ----------------------------- *)

Min(a, b) == IF a <= b THEN a ELSE b

NulFree(str) == \A i \in 1..Len(str) : str[i] # 0

\* an object the image format can hold: its type is not the bookend and none of
\* its strings holds a zero byte
Encodable(o) ==
    /\ o.objtype # "EndOfList"
    /\ NulFree(o.name)
    /\ NulFree(o.descr)
    /\ \A i \in 1..Len(o.properties) : NulFree(o.properties[i])

AllEncodable == \A i \in 1..Len(objects) : Encodable(objects[i])

\* the object y read from the buffer data is the object o that was added
SameObject(o, y, data) ==
    /\ y.objtype = o.objtype
    /\ y.name = o.name
    /\ y.descr = o.descr
    /\ y.properties = o.properties
    /\ y.data.kind = "Region"
    /\ IsSmall(y.data.start) /\ IsSmall(y.data.end)
    /\ SmallVal(y.data.start) <= SmallVal(y.data.end)
    /\ SmallVal(y.data.end) <= Len(data)
    /\ SubSeq(data, SmallVal(y.data.start) + 1, SmallVal(y.data.end)) = o.data.bytes

\* the objects read so far are the objects added, in order, and a call of next()
\* yields as long as there are objects left and no longer
RoundTrip ==
    /\ iter.state = "Active"
    /\ Len(yielded) = Min(calls, Len(objects))
    /\ \A i \in 1..Len(yielded) : SameObject(objects[i], yielded[i], blob)

\* C1 as stated: for any Manifest of objects with owned bytes, of any type and
\* with any names, descriptions and properties, the iterator over the bytes of
\* to_image yields the objects added, in order and field by field, and then none.
C1_RoundTripAnyObject ==
    (phase = "iter" /\ ~edited) => RoundTrip

\* C1 amended: the round trip holds for a Manifest whose objects have owned bytes,
\* a type other than EndOfList and no zero byte in a name, description or property.
C1_RoundTrip ==
    (phase = "iter" /\ ~edited /\ AllEncodable) => RoundTrip

C1_Witness ==
    /\ phase = "iter" /\ ~edited /\ AllEncodable
    /\ Len(objects) = 2 /\ Len(yielded) = 2 /\ calls = 3 /\ ret = "none"
    /\ Len(objects[1].properties) = 2 /\ Len(objects[2].data.bytes) = 3

\* C2 as stated: from_slice fails with MalformedHeader on every blob shorter than
\* 8 bytes.
C2_ShortIsMalformed ==
    (phase = "iter" /\ Len(blob) < 8) => iter = Iter("Failed", "MalformedHeader", Word(0, 8))

\* C2 amended: from_slice fails on every blob shorter than 8 bytes, with BadMagic
\* when the blob has 4 bytes or more and its first u32 is not the header magic, and
\* with MalformedHeader otherwise.
C2_ShortIsRejected ==
    (phase = "iter" /\ Len(blob) < 8) =>
        iter = Iter("Failed",
                    IF Len(blob) >= 4 /\ SubSeq(blob, 1, 4) # <<1, 192, 5, 209>>
                    THEN "BadMagic" ELSE "MalformedHeader",
                    Word(0, 8))

C2_Witness ==
    /\ phase = "iter" /\ Len(blob) = 7
    /\ SubSeq(blob, 1, 4) = <<1, 192, 5, 209>>
    /\ iter.err = "MalformedHeader"

\* C3: on a blob of 8 bytes or more from_slice fails with BadMagic if the u32 at 0
\* is not 0xD105C001, else with VersionMismatch if the u32 at 4 is above 2, and else
\* succeeds with the cursor at 8.
C3_HeaderValidation ==
    (phase = "iter" /\ calls = 0 /\ Len(blob) >= 8) =>
        iter = IF SubSeq(blob, 1, 4) # <<1, 192, 5, 209>>
               THEN Iter("Failed", "BadMagic", Word(0, 8))
               ELSE IF SubSeq(blob, 5, 8) \notin {<<0, 0, 0, 0>>, <<1, 0, 0, 0>>, <<2, 0, 0, 0>>}
               THEN Iter("Failed", "VersionMismatch", Word(0, 8))
               ELSE Iter("Active", "", <<8, 0, 0, 0, 0, 0, 0, 0>>)

C3_Witness ==
    /\ phase = "iter" /\ calls = 0 /\ Len(blob) > 8
    /\ SubSeq(blob, 1, 8) = <<1, 192, 5, 209, 2, 0, 0, 1>>
    /\ iter.err = "VersionMismatch"

\* C4: once a call of next() has returned no item, every later call on the same
\* iterator returns no item.
C4_TerminationAbsorbing ==
    [][(calls' = calls + 1 /\ ret = "none") => ret' = "none"]_vars

C4_Witness ==
    calls = 3 /\ ret = "none" /\ Len(yielded) = 1 /\ ~edited

\* C5 as stated: to_image returns CantUseRegionHere and no bytes when some object
\* of the Manifest has Region contents, and returns bytes when none has.
C5_RegionRejected ==
    (phase = "encoded") =>
        IF \E i \in 1..Len(objects) : objects[i].data.kind = "Region"
        THEN image = ImageErr("CantUseRegionHere")
        ELSE image.status = "ok"

\* the slice is the image cut short
Truncated ==
    /\ Len(blob) < Len(image.bytes)
    /\ blob = SubSeq(image.bytes, 1, Len(blob))

\* the offset in the image just after the last byte next() reads of record i: the
\* end of its property strings
MetaEnd(i) ==
    LET before == to_image(SubSeq(objects, 1, i - 1), FALSE).bytes
        front  == SubSeq(before, 1, Len(before) - 4)
    IN  Len(encode_meta_raw(front, objects[i], Word(Len(objects[i].data.bytes), 8)))

\* C6: a call of next() in which a read runs past the end of the buffer, or in
\* which the per-object magic is wrong, returns no item, raises nothing, yields
\* nothing and leaves the cursor where it was; and on an image cut short the calls
\* yield exactly the records whose fields all lie before the cut, then no item.
C6_LenientTruncation ==
    [][(calls' = calls + 1) =>
         /\ (/\ IsSmall(iter.offset)
             /\ read_meta(blob, SmallVal(iter.offset)).stop \in
                  {"magic", "badmagic", "type", "size", "name", "descr", "count", "prop"})
            => (ret' = "none" /\ iter' = iter /\ yielded' = yielded)
         /\ (Truncated /\ AllEncodable /\ ret' = "none")
            => /\ iter'.state = "Active"
               /\ Len(yielded') = Cardinality({i \in 1..Len(objects) : MetaEnd(i) <= Len(blob)})
               /\ \A i \in 1..Len(yielded') :
                     /\ yielded'[i].objtype = objects[i].objtype
                     /\ yielded'[i].name = objects[i].name
                     /\ yielded'[i].descr = objects[i].descr
                     /\ yielded'[i].properties = objects[i].properties
      ]_vars

C6_Witness ==
    /\ Truncated /\ AllEncodable /\ Len(objects) = 2
    /\ ret = "none" /\ why = "prop" /\ Len(yielded) = 1

\* C7 as stated: every object next() yields carries a Region with
\* start <= end <= the length of the buffer.
C7_RegionInsideBuffer ==
    \A i \in 1..Len(yielded) :
        /\ WordLe(yielded[i].data.start, yielded[i].data.end)
        /\ WordLe(yielded[i].data.end, Word(Len(blob), 8))

\* C8: every object next() yields has a Region that starts at a multiple of 8, and
\* the cursor saved when it is yielded is a multiple of 8.
C8_Alignment ==
    /\ \A i \in 1..Len(yielded) : yielded[i].data.start[1] % 8 = 0
    /\ (ret = "some" => iter.offset[1] % 8 = 0)

C8_Witness ==
    /\ ret = "some" /\ Len(yielded) = 2
    /\ yielded[1].data.end[1] % 8 # 0
    /\ Len(yielded[2].properties) = 1

\* the variant a type field stands for
TypeOfField(field) ==
    IF field = <<1, 0, 0, 0>> THEN "BootMsg"
    ELSE IF field = <<2, 0, 0, 0>> THEN "SystemService"
    ELSE IF field = <<3, 0, 0, 0>> THEN "GuestOS"
    ELSE "Unknown"

\* C9: no object next() yields has the type EndOfList; a record with the
\* per-object magic and the type field 0 ends the call with no item; any other
\* type field does not end it, and one that is not 1, 2 or 3 is read as Unknown.
C9_EndOfListNeverYielded ==
    [][(calls' = calls + 1) =>
         /\ (ret' = "some" => yielded'[Len(yielded')].objtype # "EndOfList")
         /\ (/\ IsSmall(iter.offset)
             /\ read_u32(blob, SmallVal(iter.offset)) = Some(<<77, 93, 1, 209>>)
             /\ IsSome(read_u32(blob, SmallVal(iter.offset) + 4)))
            => LET field == Unwrap(read_u32(blob, SmallVal(iter.offset) + 4))
               IN  /\ (field = <<0, 0, 0, 0>>) => (ret' = "none" /\ yielded' = yielded)
                   /\ (field # <<0, 0, 0, 0>>) => why' # "endoflist"
                   /\ (ret' = "some") =>
                         yielded'[Len(yielded')].objtype = TypeOfField(field)
      ]_vars

C9_Witness ==
    ret = "none" /\ why = "endoflist" /\ Len(yielded) = 1

\* C10 as stated: every call of next() that yields an object leaves the cursor
\* strictly greater than it was before the call.
C10_CursorForward ==
    [][(calls' = calls + 1 /\ ret' = "some") => WordLt(iter.offset, iter'.offset)]_vars

=============================================================================
